---- MODULE Spec2Model ----
(***************************************************************************)
(* Model of the MCP tool dispatcher of mcp_server_project_docu:            *)
(* AbapAdtServer (the CallTool / ListTools request handlers, the result    *)
(* codec serializeResult / handleError) and the handler groups it          *)
(* delegates to (ObjectHandler, ClassHandler, CodeAnalysisHandler,         *)
(* DdicHandler, GeneralInfoHandler; AuthHandler and BaseHandler are not    *)
(* part of the available sources and are modelled from the specification). *)
(*                                                                         *)
(* Strings built by template literals are sequences of tokens; a string    *)
(* produced by JSON.stringify is the record JsonText(tree, indent) whose   *)
(* tree is what JSON.parse returns for it.                                 *)
(***************************************************************************)
EXTENDS Integers, Sequences, FiniteSets, TLC

VARIABLES calls, metrics, session, now, server

vars == <<calls, metrics, session, now, server>>

(***************************************************************************)
(* Bounds                                                                  *)
(***************************************************************************)
\* number of invocations that may be in flight together
MaxCalls == 2

(***************************************************************************)
(* JavaScript values                                                       *)
(***************************************************************************)
Lit(s) == [t |-> "string", lit |-> s]
\* a string made of a template literal / concatenation: a token sequence
Text(tokens) == [t |-> "string", tokens |-> tokens]
\* a string of decimal digits
DigitString(d) == [t |-> "string", digits |-> d]
\* Date.prototype.toISOString of the clock value time
IsoString(time) == [t |-> "string", iso |-> time]
\* the string JSON.stringify returns; tree is its JSON.parse
JsonText(tree, indent) == [t |-> "string", json |-> tree, indent |-> indent]
CodeNumber(code) == [t |-> "number", code |-> code]
BigInt(d) == [t |-> "bigint", digits |-> d]
Prop(k, v) == [k |-> k, v |-> v]
Obj(fields) == [t |-> "object", f |-> fields]
Arr(items) == [t |-> "array", items |-> items]
\* an object that contains a reference to itself
Circular == [t |-> "circular"]

\* 9007199254740993n (2^53 + 1), the digits of the integer
BigCount == <<9,0,0,7,1,9,9,2,5,4,7,4,0,9,9,3>>

(***************************************************************************)
(* Thrown values                                                           *)
(***************************************************************************)
NoMessage == <<>>
Error(message) ==
    [kind |-> "Error", code |-> "none", message |-> message, nested |-> NoMessage]
\* an Error with a response.data.message (an HTTP client fault)
ResponseError(message, detail) ==
    [kind |-> "Error", code |-> "none", message |-> message, nested |-> detail]
McpError(code, message) ==
    [kind |-> "McpError", code |-> code, message |-> message, nested |-> NoMessage]
\* a thrown value that is not an Error: a string, or null
NonError(value) ==
    [kind |-> "NonError", code |-> "none", message |-> NoMessage, nested |-> NoMessage,
     value |-> value]
TypeError(message) == Error(message)

IsNullish(error) == error.kind = "NonError" /\ error.value = "null"

(***************************************************************************)
(* JSON.stringify / JSON.parse                                             *)
(***************************************************************************)
\* value.toString() of a bigint: its exact decimal digits
BigIntToString(value) == DigitString(value.digits)

\* the replacer argument of JSON.stringify: "none", or "bigint" for
\* (key, value) => typeof value === 'bigint' ? value.toString() : value
Replace(replacer, value) ==
    IF replacer = "bigint" /\ value.t = "bigint" THEN BigIntToString(value) ELSE value

RECURSIVE Contains(_, _)
Contains(value, tag) ==
    CASE value.t = tag -> TRUE
      [] value.t = "object" ->
            \E i \in 1..Len(value.f) : Contains(value.f[i].v, tag)
      [] value.t = "array" ->
            \E i \in 1..Len(value.items) : Contains(value.items[i], tag)
      [] OTHER -> FALSE

RECURSIVE Serializable(_, _)
Serializable(value, replacer) ==
    LET v == Replace(replacer, value) IN
    CASE v.t = "bigint" -> FALSE
      [] v.t = "circular" -> FALSE
      [] v.t = "object" ->
            \A i \in 1..Len(v.f) : Serializable(v.f[i].v, replacer)
      [] v.t = "array" ->
            \A i \in 1..Len(v.items) : Serializable(v.items[i], replacer)
      [] OTHER -> TRUE

IsDefinedProp(p) == p.v.t # "undefined"

\* the value JSON.parse gives back for the text JSON.stringify wrote
RECURSIVE ToJson(_, _)
ToJson(value, replacer) ==
    LET v == Replace(replacer, value) IN
    CASE v.t = "object" ->
            LET kept == SelectSeq(v.f, IsDefinedProp) IN
            Obj([i \in 1..Len(kept) |-> Prop(kept[i].k, ToJson(kept[i].v, replacer))])
      [] v.t = "array" ->
            Arr([i \in 1..Len(v.items) |-> ToJson(v.items[i], replacer)])
      [] OTHER -> v

\* the argument expression is evaluated once, before the call: v is the
\* value JSON.stringify receives
JSONstringify(value, replacer, indent) ==
    CHOOSE s \in
        {IF Serializable(v, replacer)
         THEN [ok |-> TRUE, text |-> JsonText(ToJson(v, replacer), indent)]
         ELSE [ok |-> FALSE,
               error |-> IF Contains(v, "circular")
                         THEN TypeError(<<"Converting circular structure to JSON">>)
                         ELSE TypeError(<<"Do not know how to serialize a BigInt">>)]
            : v \in {value}} : TRUE

JSONparse(text) == text.json

(***************************************************************************)
(* Result envelope codec (AbapAdtServer.serializeResult / handleError)     *)
(***************************************************************************)
TextBlock(text) == [type |-> "text", text |-> text]

\* String(error) for a thrown value that is not an Error
StringOf(error) == <<error.value>>

\* a codec that passes the message of every Error through
handleErrorAnyMessage(error) ==
    LET e == IF error.kind = "NonError" THEN Error(StringOf(error)) ELSE error IN
    [content |-> <<TextBlock(JSONstringify(
          Obj(<<Prop("error", Text(e.message)),
                Prop("code", CodeNumber(IF e.kind = "McpError" THEN e.code
                                        ELSE "InternalError"))>>), "none", 0).text)>>,
     isError |-> TRUE]

handleError(error) ==
    LET e == IF error.kind = "NonError" THEN Error(StringOf(error)) ELSE error IN
    IF e.kind = "McpError"
    THEN [content |-> <<TextBlock(JSONstringify(
                Obj(<<Prop("error", Text(e.message)),
                      Prop("code", CodeNumber(e.code))>>), "none", 0).text)>>,
          isError |-> TRUE]
    ELSE [content |-> <<TextBlock(JSONstringify(
                Obj(<<Prop("error", Text(<<"Internal server error">>)),
                      Prop("code", CodeNumber("InternalError"))>>), "none", 0).text)>>,
          isError |-> TRUE]

serializeResult(result) ==
    LET s == JSONstringify(result, "bigint", 0) IN
    IF s.ok
    THEN [content |-> <<TextBlock(s.text)>>]
    ELSE handleError(McpError("InternalError", <<"Failed to serialize result">>))

(***************************************************************************)
(* Handler groups: getTools (declared names), handle (the switch) and the  *)
(* per-tool methods.  A method is described by what its body does:         *)
(*   login    it awaits this.adtclient.login() first                       *)
(*   argReads the fields of args it reads when it issues the operation     *)
(*   op       the backend operation it awaits                              *)
(*   key      the payload key of {status: 'success', <key>: result}        *)
(*   message  the message field of the success structure ("" when none)    *)
(*   indent   the space argument of JSON.stringify                         *)
(*   prefix   the prefix of the message of the error it re-raises          *)
(*   nested   it prefers error.response?.data?.message                     *)
(*   rethrow  the class of the error it re-raises                          *)
(*   returns  "envelope": it returns {content: [{type: 'text', text:       *)
(*            JSON.stringify(structure)}]}; "structure": it returns the    *)
(*            success structure itself                                     *)
(***************************************************************************)
Method(login, argReads, op, key, message, indent, prefix, nested, rethrow) ==
    [login |-> login, argReads |-> argReads, op |-> op, key |-> key,
     message |-> message, indent |-> indent, prefix |-> prefix,
     nested |-> nested, rethrow |-> rethrow, returns |-> "envelope"]

\* ---- ObjectHandler
\* a group that also declares the reference tools of another group
ObjectHandlerToolsWithReferences ==
    <<"getObjects", "getObjectStructure", "getObjectSourceCode", "getObjectPath",
      "getObjectVersionHistory", "getUsageReferences">>

ObjectHandlerTools ==
    <<"getObjects", "getObjectStructure", "getObjectSourceCode", "getObjectPath",
      "getObjectVersionHistory">>

ObjectHandlerHandle(toolName) ==
    CASE toolName = "getObjects" -> "handleGetObjects"
      [] toolName = "getObjectStructure" -> "handleObjectStructure"
      [] toolName = "getObjectSourceCode" -> "handleGetObjectSourceCode"
      [] toolName = "getObjectPath" -> "handleGetObjectPath"
      [] toolName = "getObjectVersionHistory" -> "handleObjectVersionHistory"
      [] OTHER -> "default"

handleObjectStructure ==
    Method(FALSE, {"objectUrl", "version"}, "objectStructure", "structure",
           "Object structure retrieved successfully", 2,
           "Failed to get object structure: ", TRUE, "McpError")
handleGetObjectPath ==
    Method(FALSE, {"objectUrl"}, "findObjectPath", "path",
           "Object path found successfully", 2,
           "Failed to find object path: ", TRUE, "McpError")
handleGetObjects ==
    Method(FALSE, {"query", "objType", "max"}, "searchObject", "results",
           "Object search completed successfully", 2,
           "Failed to search objects: ", TRUE, "McpError")
handleGetObjectSourceCode ==
    Method(FALSE, {"objectSourceUrl", "options"}, "getObjectSource", "source",
           "", 0, "Failed to get object source: ", FALSE, "McpError")
handleObjectVersionHistory ==
    Method(FALSE, {"objectUrl", "clasInclude"}, "revisions", "revisions",
           "", 0, "Failed to get revisions: ", FALSE, "McpError")

\* ---- ClassHandler (ClassHandler.ts holds two drafts of the class; this is
\*      the one whose tool names the dispatcher routes, lines 6-175)
ClassHandlerTools == <<"classIncludes", "classComponents", "bindingDetails">>

ClassHandlerHandle(toolName) ==
    CASE toolName = "classIncludes" -> "handleClassIncludes"
      [] toolName = "classComponents" -> "handleClassComponents"
      [] toolName = "bindingDetails" -> "handleBindingDetails"
      [] OTHER -> "default"

handleClassIncludes ==
    Method(FALSE, {"clas"}, "classIncludes", "result", "", 0,
           "Failed to get class includes: ", FALSE, "McpError")
handleClassComponents ==
    Method(FALSE, {"url"}, "classComponents", "result", "", 0,
           "Failed to get class components: ", FALSE, "McpError")
handleBindingDetails ==
    Method(FALSE, {"binding", "index"}, "bindingDetails", "details", "", 0,
           "Failed to get binding details: ", FALSE, "McpError")

\* ---- CodeAnalysisHandler
CodeAnalysisHandlerTools ==
    <<"getUsageReferences", "getUsageReferenceSnippets", "abapDocumentation",
      "nodeContents", "mainPrograms">>

CodeAnalysisHandlerHandle(toolName) ==
    CASE toolName = "getUsageReferences" -> "handleUsageReferences"
      [] toolName = "getUsageReferenceSnippets" -> "handleUsageReferenceSnippets"
      [] toolName = "abapDocumentation" -> "handleAbapDocumentation"
      [] toolName = "nodeContents" -> "handleNodeContents"
      [] toolName = "mainPrograms" -> "handleMainPrograms"
      [] OTHER -> "default"

handleUsageReferences ==
    Method(FALSE, {"objectUrl"}, "usageReferences", "result", "", 0,
           "Usage references failed: ", FALSE, "McpError")
handleUsageReferenceSnippets ==
    Method(FALSE, {"usageReferences"}, "usageReferenceSnippets", "result", "", 0,
           "Usage reference snippets failed: ", FALSE, "McpError")
handleAbapDocumentation ==
    Method(FALSE, {"objectUri", "body", "line", "column", "language"},
           "abapDocumentation", "result", "", 0,
           "ABAP documentation failed: ", FALSE, "McpError")
handleNodeContents ==
    Method(FALSE, {"parent_type", "parent_name", "user_name", "parent_tech_name",
                   "rebuild_tree", "parentnodes"},
           "nodeContents", "nodeContents", "", 0,
           "Failed to get node contents: ", FALSE, "McpError")
handleMainPrograms ==
    Method(FALSE, {"includeUrl"}, "mainPrograms", "mainPrograms", "", 0,
           "Failed to get main programs: ", FALSE, "McpError")

\* ---- DdicHandler (the draft in ObjectHandler.ts, lines 286-541, that the
\*      dispatcher's tool names belong to)
DdicHandlerTools ==
    <<"getDdicElementDetails", "getPackagesByName", "getTableContent", "runSqlQuery">>

DdicHandlerHandle(toolName) ==
    CASE toolName = "getDdicElementDetails" -> "handleDdicElement"
      [] toolName = "getPackagesByName" -> "handleGetPackages"
      [] toolName = "getTableContent" -> "handleTableContents"
      [] toolName = "runSqlQuery" -> "handleRunQuery"
      [] OTHER -> "default"

handleDdicElement ==
    Method(TRUE, {"path", "getTargetForAssociation", "getExtensionViews",
                  "getSecondaryObjects"},
           "ddicElement", "result", "", 0,
           "Failed to get DDIC element: ", FALSE, "McpError")
handleGetPackages ==
    Method(TRUE, {"name"}, "packageSearchHelp", "result", "", 0,
           "Failed to get package search help: ", FALSE, "McpError")
handleTableContents ==
    Method(TRUE, {"ddicEntityName", "rowNumber", "decode", "sqlQuery"},
           "tableContents", "result", "", 0,
           "Failed to retrieve table contents: ", FALSE, "Error")
handleRunQuery ==
    Method(TRUE, {"sqlQuery", "rowNumber", "decode"}, "runQuery", "result", "", 0,
           "Failed to run query: ", FALSE, "Error")

\* ---- GeneralInfoHandler (unnamed/part_004, lines 5-92)
GeneralInfoHandlerTools == <<"getAllAnnotations", "getAllObjectTypes">>

GeneralInfoHandlerHandle(toolName) ==
    CASE toolName = "getAllAnnotations" -> "handleAnnotationDefinitions"
      [] toolName = "getAllObjectTypes" -> "handleObjectTypes"
      [] OTHER -> "default"

handleAnnotationDefinitions ==
    Method(TRUE, {}, "annotationDefinitions", "result", "", 0,
           "Failed to get annotation definitions: ", FALSE, "McpError")
handleObjectTypes ==
    Method(TRUE, {}, "objectTypes", "types",
           "Object types retrieved successfully", 2,
           "Failed to get object types: ", TRUE, "McpError")

\* ---- AuthHandler (its source is not available: the handler-group contract
\*      of the specification, for the three names the dispatcher routes to it:
\*      one backend operation, one observation, the raw result wrapped in the
\*      tagged success structure, a fault re-raised as an internal error)
ContractMethod(op, prefix) ==
    [login |-> FALSE, argReads |-> {}, op |-> op, key |-> "result",
     message |-> "", indent |-> 0, prefix |-> prefix,
     nested |-> TRUE, rethrow |-> "Error", returns |-> "structure"]

AuthHandlerTools == <<"login", "logout", "dropSession">>

AuthHandlerHandle(toolName) ==
    CASE toolName = "login" -> "handleLogin"
      [] toolName = "logout" -> "handleLogout"
      [] toolName = "dropSession" -> "handleDropSession"
      [] OTHER -> "default"

handleLogin == ContractMethod("login", "Login failed: ")
handleLogout == ContractMethod("logout", "Logout failed: ")
handleDropSession == ContractMethod("dropSession", "Drop session failed: ")

\* ---- ClassHandler, the second class of that name in ClassHandler.ts
\*      (lines 181-278): other tool names, session-ensure in every method
ClassHandler2Tools == <<"getClassComponents", "getServiceBindingDetails">>

ClassHandler2Handle(toolName) ==
    CASE toolName = "getClassComponents" -> "ClassHandler2_handleClassComponents"
      [] toolName = "getServiceBindingDetails" -> "ClassHandler2_handleBindingDetails"
      [] OTHER -> "default"

ClassHandler2_handleClassComponents ==
    Method(TRUE, {"objectUrl"}, "classComponents", "result", "", 0,
           "Failed to get class components: ", FALSE, "McpError")
ClassHandler2_handleBindingDetails ==
    Method(TRUE, {"binding"}, "bindingDetails", "details", "", 0,
           "Failed to get binding details: ", FALSE, "McpError")

\* ---- ReferenceHandler (unnamed/part_003)
ReferenceHandlerTools == <<"getUsageReferences", "getUsageReferenceSnippets">>

\* a switch that also reaches the method the class defines but does not
\* declare
ReferenceHandlerHandleWithMainPrograms(toolName) ==
    CASE toolName = "getUsageReferences" -> "ReferenceHandler_handleUsageReferences"
      [] toolName = "getUsageReferenceSnippets" ->
            "ReferenceHandler_handleUsageReferenceSnippets"
      [] toolName = "mainPrograms" -> "ReferenceHandler_handleMainPrograms"
      [] OTHER -> "default"

ReferenceHandlerHandle(toolName) ==
    CASE toolName = "getUsageReferences" -> "ReferenceHandler_handleUsageReferences"
      [] toolName = "getUsageReferenceSnippets" ->
            "ReferenceHandler_handleUsageReferenceSnippets"
      [] OTHER -> "default"

ReferenceHandler_handleUsageReferences ==
    Method(TRUE, {"objectUrl"}, "usageReferences", "result", "", 0,
           "Usage references failed: ", FALSE, "McpError")
ReferenceHandler_handleUsageReferenceSnippets ==
    Method(TRUE, {"usageReferences"}, "usageReferenceSnippets", "result", "", 0,
           "Usage reference snippets failed: ", FALSE, "McpError")
\* defined by the class, reached by no case of its switch
ReferenceHandler_handleMainPrograms ==
    Method(FALSE, {"includeUrl"}, "mainPrograms", "mainPrograms", "", 0,
           "Failed to get main programs: ", FALSE, "McpError")

\* ---- CodeAnalysisHandler, the class of that name in unnamed/part_004
\*      (lines 93-443): seven tools
CodeAnalysisHandler2Tools ==
    <<"findDefinition", "usageReferences", "usageReferenceSnippets",
      "fragmentMappings", "abapDocumentation", "nodeContents", "mainPrograms">>

CodeAnalysisHandler2Handle(toolName) ==
    CASE toolName = "findDefinition" -> "CodeAnalysisHandler2_handleFindDefinition"
      [] toolName = "usageReferences" -> "CodeAnalysisHandler2_handleUsageReferences"
      [] toolName = "usageReferenceSnippets" ->
            "CodeAnalysisHandler2_handleUsageReferenceSnippets"
      [] toolName = "fragmentMappings" ->
            "CodeAnalysisHandler2_handleFragmentMappings"
      [] toolName = "abapDocumentation" ->
            "CodeAnalysisHandler2_handleAbapDocumentation"
      [] toolName = "nodeContents" -> "CodeAnalysisHandler2_handleNodeContents"
      [] toolName = "mainPrograms" -> "CodeAnalysisHandler2_handleMainPrograms"
      [] OTHER -> "default"

CodeAnalysisHandler2_handleFindDefinition ==
    Method(FALSE, {"url", "source", "line", "startCol", "endCol", "implementation",
                   "mainProgram"},
           "findDefinition", "result", "", 0,
           "Find definition failed: ", FALSE, "McpError")
CodeAnalysisHandler2_handleUsageReferences ==
    Method(FALSE, {"url", "line", "column"}, "usageReferences", "result", "", 0,
           "Usage references failed: ", FALSE, "McpError")
CodeAnalysisHandler2_handleUsageReferenceSnippets ==
    Method(FALSE, {"references"}, "usageReferenceSnippets", "result", "", 0,
           "Usage reference snippets failed: ", FALSE, "McpError")
CodeAnalysisHandler2_handleFragmentMappings ==
    Method(FALSE, {"url", "type", "name"}, "fragmentMappings", "result", "", 0,
           "Fragment mappings failed: ", FALSE, "McpError")
CodeAnalysisHandler2_handleAbapDocumentation ==
    Method(FALSE, {"objectUri", "body", "line", "column", "language"},
           "abapDocumentation", "result", "", 0,
           "ABAP documentation failed: ", FALSE, "McpError")
CodeAnalysisHandler2_handleNodeContents ==
    Method(FALSE, {"parent_type", "parent_name", "user_name", "parent_tech_name",
                   "rebuild_tree", "parentnodes"},
           "nodeContents", "nodeContents", "", 0,
           "Failed to get node contents: ", FALSE, "McpError")
CodeAnalysisHandler2_handleMainPrograms ==
    Method(FALSE, {"includeUrl"}, "mainPrograms", "mainPrograms", "", 0,
           "Failed to get main programs: ", FALSE, "McpError")

\* ---- DdicHandler, the second class of that name in ObjectHandler.ts
\*      (lines 542-850): six tools, no session-ensure
DdicHandler2Tools ==
    <<"annotationDefinitions", "ddicElement", "ddicRepositoryAccess",
      "packageSearchHelp", "tableContents", "runQuery">>

DdicHandler2Handle(toolName) ==
    CASE toolName = "annotationDefinitions" ->
            "DdicHandler2_handleAnnotationDefinitions"
      [] toolName = "ddicElement" -> "DdicHandler2_handleDdicElement"
      [] toolName = "ddicRepositoryAccess" ->
            "DdicHandler2_handleDdicRepositoryAccess"
      [] toolName = "packageSearchHelp" -> "DdicHandler2_handlePackageSearchHelp"
      [] toolName = "tableContents" -> "DdicHandler2_handleTableContents"
      [] toolName = "runQuery" -> "DdicHandler2_handleRunQuery"
      [] OTHER -> "default"

DdicHandler2_handleAnnotationDefinitions ==
    Method(FALSE, {}, "annotationDefinitions", "result", "", 0,
           "Failed to get annotation definitions: ", FALSE, "McpError")
DdicHandler2_handleDdicElement ==
    Method(FALSE, {"path", "getTargetForAssociation", "getExtensionViews",
                   "getSecondaryObjects"},
           "ddicElement", "result", "", 0,
           "Failed to get DDIC element: ", FALSE, "McpError")
DdicHandler2_handleDdicRepositoryAccess ==
    Method(FALSE, {"path"}, "ddicRepositoryAccess", "result", "", 0,
           "Failed to access DDIC repository: ", FALSE, "McpError")
DdicHandler2_handlePackageSearchHelp ==
    Method(FALSE, {"type", "name"}, "packageSearchHelp", "result", "", 0,
           "Failed to get package search help: ", FALSE, "McpError")
DdicHandler2_handleTableContents ==
    Method(FALSE, {"ddicEntityName", "rowNumber", "decode", "sqlQuery"},
           "tableContents", "result", "", 0,
           "Failed to retrieve table contents: ", FALSE, "Error")
DdicHandler2_handleRunQuery ==
    Method(FALSE, {"sqlQuery", "rowNumber", "decode"}, "runQuery", "result", "", 0,
           "Failed to run query: ", FALSE, "Error")

\* ---- the groups together
Groups == {"auth", "object", "class", "codeAnalysis", "ddic", "generalInfo"}

\* the handler classes whose source is available, each draft on its own
SourceGroups ==
    {"object", "class", "class2", "codeAnalysis", "codeAnalysis2", "reference",
     "ddic", "ddic2", "generalInfo"}

getTools(group) ==
    CASE group = "auth" -> AuthHandlerTools
      [] group = "object" -> ObjectHandlerTools
      [] group = "class" -> ClassHandlerTools
      [] group = "codeAnalysis" -> CodeAnalysisHandlerTools
      [] group = "ddic" -> DdicHandlerTools
      [] group = "generalInfo" -> GeneralInfoHandlerTools
      [] group = "class2" -> ClassHandler2Tools
      [] group = "reference" -> ReferenceHandlerTools
      [] group = "codeAnalysis2" -> CodeAnalysisHandler2Tools
      [] group = "ddic2" -> DdicHandler2Tools

\* the method group.handle(toolName) dispatches to, "default" when it throws
handle(group, toolName) ==
    CASE group = "auth" -> AuthHandlerHandle(toolName)
      [] group = "object" -> ObjectHandlerHandle(toolName)
      [] group = "class" -> ClassHandlerHandle(toolName)
      [] group = "codeAnalysis" -> CodeAnalysisHandlerHandle(toolName)
      [] group = "ddic" -> DdicHandlerHandle(toolName)
      [] group = "generalInfo" -> GeneralInfoHandlerHandle(toolName)
      [] group = "class2" -> ClassHandler2Handle(toolName)
      [] group = "reference" -> ReferenceHandlerHandle(toolName)
      [] group = "codeAnalysis2" -> CodeAnalysisHandler2Handle(toolName)
      [] group = "ddic2" -> DdicHandler2Handle(toolName)

\* the text of the McpError(MethodNotFound) of a group's default case
UnknownInGroup(group) ==
    CASE group = "auth" -> "Unknown auth tool: "
      [] group = "object" -> "Unknown object tool: "
      [] group = "class" -> "Unknown class tool: "
      [] group = "codeAnalysis" -> "Unknown code analysis tool: "
      [] group = "ddic" -> "Unknown DDIC tool: "
      [] group = "generalInfo" -> "Unknown DDIC tool: "
      [] group = "class2" -> "Unknown class tool: "
      [] group = "reference" -> "Unknown code analysis tool: "
      [] group = "codeAnalysis2" -> "Unknown code analysis tool: "
      [] group = "ddic2" -> "Unknown DDIC tool: "

MethodBody(method) ==
    CASE method = "handleGetObjects" -> handleGetObjects
      [] method = "handleObjectStructure" -> handleObjectStructure
      [] method = "handleGetObjectSourceCode" -> handleGetObjectSourceCode
      [] method = "handleGetObjectPath" -> handleGetObjectPath
      [] method = "handleObjectVersionHistory" -> handleObjectVersionHistory
      [] method = "handleClassIncludes" -> handleClassIncludes
      [] method = "handleClassComponents" -> handleClassComponents
      [] method = "handleBindingDetails" -> handleBindingDetails
      [] method = "handleUsageReferences" -> handleUsageReferences
      [] method = "handleUsageReferenceSnippets" -> handleUsageReferenceSnippets
      [] method = "handleAbapDocumentation" -> handleAbapDocumentation
      [] method = "handleNodeContents" -> handleNodeContents
      [] method = "handleMainPrograms" -> handleMainPrograms
      [] method = "handleDdicElement" -> handleDdicElement
      [] method = "handleGetPackages" -> handleGetPackages
      [] method = "handleTableContents" -> handleTableContents
      [] method = "handleRunQuery" -> handleRunQuery
      [] method = "handleAnnotationDefinitions" -> handleAnnotationDefinitions
      [] method = "handleObjectTypes" -> handleObjectTypes
      [] method = "handleLogin" -> handleLogin
      [] method = "handleLogout" -> handleLogout
      [] method = "handleDropSession" -> handleDropSession
      [] method = "ClassHandler2_handleClassComponents" ->
            ClassHandler2_handleClassComponents
      [] method = "ClassHandler2_handleBindingDetails" ->
            ClassHandler2_handleBindingDetails
      [] method = "ReferenceHandler_handleUsageReferences" ->
            ReferenceHandler_handleUsageReferences
      [] method = "ReferenceHandler_handleUsageReferenceSnippets" ->
            ReferenceHandler_handleUsageReferenceSnippets
      [] method = "ReferenceHandler_handleMainPrograms" ->
            ReferenceHandler_handleMainPrograms
      [] method = "CodeAnalysisHandler2_handleFindDefinition" ->
            CodeAnalysisHandler2_handleFindDefinition
      [] method = "CodeAnalysisHandler2_handleUsageReferences" ->
            CodeAnalysisHandler2_handleUsageReferences
      [] method = "CodeAnalysisHandler2_handleUsageReferenceSnippets" ->
            CodeAnalysisHandler2_handleUsageReferenceSnippets
      [] method = "CodeAnalysisHandler2_handleFragmentMappings" ->
            CodeAnalysisHandler2_handleFragmentMappings
      [] method = "CodeAnalysisHandler2_handleAbapDocumentation" ->
            CodeAnalysisHandler2_handleAbapDocumentation
      [] method = "CodeAnalysisHandler2_handleNodeContents" ->
            CodeAnalysisHandler2_handleNodeContents
      [] method = "CodeAnalysisHandler2_handleMainPrograms" ->
            CodeAnalysisHandler2_handleMainPrograms
      [] method = "DdicHandler2_handleAnnotationDefinitions" ->
            DdicHandler2_handleAnnotationDefinitions
      [] method = "DdicHandler2_handleDdicElement" ->
            DdicHandler2_handleDdicElement
      [] method = "DdicHandler2_handleDdicRepositoryAccess" ->
            DdicHandler2_handleDdicRepositoryAccess
      [] method = "DdicHandler2_handlePackageSearchHelp" ->
            DdicHandler2_handlePackageSearchHelp
      [] method = "DdicHandler2_handleTableContents" ->
            DdicHandler2_handleTableContents
      [] method = "DdicHandler2_handleRunQuery" ->
            DdicHandler2_handleRunQuery

(***************************************************************************)
(* The input schemas of the tool descriptors getTools() returns, for the   *)
(* handler classes the server registers:                                   *)
(*   properties  the keys of inputSchema.properties                        *)
(*   optional    the properties marked `optional: true`                    *)
(*   required    the names in inputSchema.required                         *)
(***************************************************************************)
InputSchema(properties, optional, required) ==
    [properties |-> properties, optional |-> optional, required |-> required]

ObjectHandlerSchema(toolName) ==
    CASE toolName = "getObjects" ->
            InputSchema({"query", "objType", "max"},
                        {"objType", "max"},
                        {"query"})
      [] toolName = "getObjectStructure" ->
            InputSchema({"objectUrl", "version"},
                        {"version"},
                        {"objectUrl"})
      [] toolName = "getObjectSourceCode" ->
            InputSchema({"objectUrl", "options"},
                        {},
                        {"objectUrl"})
      [] toolName = "getObjectPath" ->
            InputSchema({"objectUrl"},
                        {},
                        {"objectUrl"})
      [] toolName = "getObjectVersionHistory" ->
            InputSchema({"objectUrl", "clasInclude"},
                        {"clasInclude"},
                        {"objectUrl"})

ClassHandlerSchema(toolName) ==
    CASE toolName = "classIncludes" ->
            InputSchema({"clas"},
                        {},
                        {"clas"})
      [] toolName = "classComponents" ->
            InputSchema({"url"},
                        {},
                        {"url"})
      [] toolName = "bindingDetails" ->
            InputSchema({"binding", "index"},
                        {"index"},
                        {"binding"})

CodeAnalysisHandlerSchema(toolName) ==
    CASE toolName = "getUsageReferences" ->
            InputSchema({"objectUrl"},
                        {},
                        {"objectUrl"})
      [] toolName = "getUsageReferenceSnippets" ->
            InputSchema({"usageReferences"},
                        {},
                        {"usageReferences"})
      [] toolName = "abapDocumentation" ->
            InputSchema({"objectUri", "body", "line", "column", "language"},
                        {"language"},
                        {"objectUri", "body", "line", "column"})
      [] toolName = "nodeContents" ->
            InputSchema({"parent_type", "parent_name", "user_name",
                         "parent_tech_name", "rebuild_tree", "parentnodes"},
                        {"parent_name", "user_name", "parent_tech_name",
                         "rebuild_tree", "parentnodes"},
                        {"parent_type"})
      [] toolName = "mainPrograms" ->
            InputSchema({"includeUrl"},
                        {},
                        {"includeUrl"})

DdicHandlerSchema(toolName) ==
    CASE toolName = "getDdicElementDetails" ->
            InputSchema({"path", "getTargetForAssociation",
                         "getExtensionViews", "getSecondaryObjects"},
                        {"getTargetForAssociation", "getExtensionViews",
                         "getSecondaryObjects"},
                        {"path"})
      [] toolName = "getPackagesByName" ->
            InputSchema({"name"},
                        {"name"},
                        {"type"})
      [] toolName = "getTableContent" ->
            InputSchema({"ddicEntityName", "rowNumber", "decode",
                         "sqlQuery"},
                        {"rowNumber", "decode", "sqlQuery"},
                        {"ddicEntityName"})
      [] toolName = "runSqlQuery" ->
            InputSchema({"sqlQuery", "rowNumber", "decode"},
                        {"rowNumber", "decode"},
                        {"sqlQuery"})

GeneralInfoHandlerSchema(toolName) ==
    CASE toolName = "getAllAnnotations" -> InputSchema({}, {}, {})
      [] toolName = "getAllObjectTypes" -> InputSchema({}, {}, {})

\* the inputSchema of the descriptor a group declares under a name
inputSchema(group, toolName) ==
    CASE group = "object" -> ObjectHandlerSchema(toolName)
      [] group = "class" -> ClassHandlerSchema(toolName)
      [] group = "codeAnalysis" -> CodeAnalysisHandlerSchema(toolName)
      [] group = "ddic" -> DdicHandlerSchema(toolName)
      [] group = "generalInfo" -> GeneralInfoHandlerSchema(toolName)

(***************************************************************************)
(* Dispatcher: the catalog and the routing switch                          *)
(***************************************************************************)
Healthcheck == "healthcheck"

\* a listing in the order in which the constructor creates the groups
ListToolsConstructionOrder ==
    getTools("auth") \o getTools("object") \o getTools("class")
        \o getTools("codeAnalysis") \o getTools("generalInfo") \o getTools("ddic")
        \o <<Healthcheck>>

\* ListToolsRequestSchema handler: the names of the descriptors it returns
ListTools ==
    getTools("auth") \o getTools("object") \o getTools("class")
        \o getTools("codeAnalysis") \o getTools("ddic") \o getTools("generalInfo")
        \o <<Healthcheck>>

\* a switch that lists healthcheck among the cases of a handler group
RouteHealthcheckDelegated(name) ==
    CASE name \in {"login", "logout", "dropSession"} -> "auth"
      [] name \in {"getObjects", "getObjectStructure", "getObjectSourceCode",
                   "getObjectPath", "getObjectVersionHistory"} -> "object"
      [] name \in {"classIncludes", "classComponents", "bindingDetails"} -> "class"
      [] name \in {"getUsageReferences", "getUsageReferenceSnippets",
                   "abapDocumentation", "nodeContents", "mainPrograms"} -> "codeAnalysis"
      [] name \in {"annotationDefinitions", "objectTypes", "healthcheck"} -> "generalInfo"
      [] name \in {"getDdicElementDetails", "getPackages", "getTableContent",
                   "runSqlQuery"} -> "ddic"
      [] OTHER -> "default"

\* the switch of the CallToolRequestSchema handler: the group a name is
\* delegated to, "inline" for healthcheck, "default" otherwise
Route(name) ==
    CASE name \in {"login", "logout", "dropSession"} -> "auth"
      [] name \in {"getObjects", "getObjectStructure", "getObjectSourceCode",
                   "getObjectPath", "getObjectVersionHistory"} -> "object"
      [] name \in {"classIncludes", "classComponents", "bindingDetails"} -> "class"
      [] name \in {"getUsageReferences", "getUsageReferenceSnippets",
                   "abapDocumentation", "nodeContents", "mainPrograms"} -> "codeAnalysis"
      [] name \in {"annotationDefinitions", "objectTypes"} -> "generalInfo"
      [] name \in {"getDdicElementDetails", "getPackages", "getTableContent",
                   "runSqlQuery"} -> "ddic"
      [] name = "healthcheck" -> "inline"
      [] OTHER -> "default"

(***************************************************************************)
(* Inputs of an invocation and outcomes of the backend                     *)
(***************************************************************************)
Range(seq) == {seq[i] : i \in 1..Len(seq)}

\* every name the catalog lists, every name the switch routes, and a name
\* that is neither
ToolNames ==
    Range(ListTools)
        \cup {"annotationDefinitions", "objectTypes", "getPackages"}
        \cup {"unknownTool"}

\* the names the invocations after the first are drawn from: a method without
\* session-ensure that re-raises an McpError, and one with session-ensure
\* that re-raises a plain Error
OverlapNames == {"classComponents", "getTableContent"}

Names(i) == IF i = 1 THEN ToolNames ELSE OverlapNames

\* request.params.arguments: undefined, or an object
ArgBags == {"absent", "present"}

PlainValue == Obj(<<Prop("count", [t |-> "number", n |-> 7])>>)
BigValue == Obj(<<Prop("count", BigInt(BigCount))>>)

TimeoutFault == Error(<<"timeout">>)
DetailedFault == ResponseError(<<"Request failed">>, <<"Object locked">>)
StringFault == NonError("boom")
NullFault == NonError("null")

Resolved(value) == [kind |-> "resolved", value |-> value]
Rejected(error) == [kind |-> "rejected", error |-> error]
NotSettled == [kind |-> "none"]

BackendOutcomes ==
    {Resolved(v) : v \in {PlainValue, BigValue, Circular}}
        \cup {Rejected(f) : f \in {TimeoutFault, DetailedFault, StringFault, NullFault}}
\* adtclient.login() resolves to a session object
LoginOutcomes ==
    {Resolved(PlainValue)} \cup {Rejected(f) : f \in {TimeoutFault, StringFault}}

(***************************************************************************)
(* State                                                                   *)
(***************************************************************************)
NoEnvelope == [content |-> <<>>]
\* no value has reached the catch block of the CallTool handler
NoThrown == [kind |-> "none"]

IdleCall ==
    [pc |-> "idle", name |-> "", args |-> "absent", group |-> "none",
     method |-> "none", startTime |-> 0, tracked |-> 0, trackedOk |-> 0,
     logins |-> 0, ops |-> 0, login |-> NotSettled, backend |-> NotSettled,
     envelope |-> NoEnvelope, returned |-> 0, raised |-> FALSE,
     thrown |-> NoThrown, tools |-> <<>>, recorder |-> "ok"]

\* process.env: the variables the constructor reads.  A variable is unset,
\* set to the empty string, or set to a non-empty string
RequiredVars == <<"SAP_URL", "SAP_USER", "SAP_PASSWORD">>
OptionalVars == {"SAP_CLIENT", "SAP_LANGUAGE"}
EnvVars == Range(RequiredVars) \cup OptionalVars
Environments ==
    {env \in [EnvVars -> {"unset", "empty", "set"}] :
        \A v \in OptionalVars : env[v] # "empty"}
FullEnvironment == [v \in EnvVars |-> "set"]

\* the process before `new AbapAdtServer()` has run
Loading(env) ==
    [env |-> env, phase |-> "loading", adtClient |-> FALSE, handlers |-> {},
     missingVars |-> <<>>]

\* the process after the constructor returned and app.listen succeeded
Listening(env) ==
    [env |-> env, phase |-> "listening", adtClient |-> TRUE, handlers |-> Groups,
     missingVars |-> <<>>]

\* no request has arrived yet
NoRequests ==
    /\ calls = [i \in 1..MaxCalls |-> IdleCall]
    /\ metrics = [attempted |-> 0, succeeded |-> 0, failed |-> 0,
                  latencySum |-> 0, latencyCount |-> 0]
    /\ session = [authenticated |-> FALSE]
    /\ now = 0

Init ==
    /\ NoRequests
    /\ server = Listening(FullEnvironment)

(***************************************************************************)
(* Metrics recorder (BaseHandler.trackRequest; its source is not           *)
(* available: observe(startTime, succeeded) of the specification)          *)
(***************************************************************************)
observe(m, startTime, succeeded, time) ==
    [attempted |-> m.attempted + 1,
     succeeded |-> m.succeeded + (IF succeeded THEN 1 ELSE 0),
     failed |-> m.failed + (IF succeeded THEN 0 ELSE 1),
     latencySum |-> m.latencySum + (time - startTime),
     latencyCount |-> m.latencyCount + 1]

\* what a recorder that fails throws: trackRequest is an external call of
\* the handler methods, "throws" marks an invocation during which it fails
RecorderFault == Error(<<"metrics recorder failed">>)
RecorderThrows(ctx) == ctx.c.recorder = "throws"

\* this.trackRequest(startTime, success) inside a method of call ctx.c
trackRequest(ctx, success) ==
    [ctx EXCEPT !.m = observe(ctx.m, ctx.c.startTime, success, ctx.t),
                !.c.tracked = @ + 1,
                !.c.trackedOk = @ + (IF success THEN 1 ELSE 0)]

(***************************************************************************)
(* The CallToolRequestSchema handler, from the point where the switch has  *)
(* produced a result or something was thrown inside its try block          *)
(***************************************************************************)
Returned(value) == [ok |-> TRUE, value |-> value]
Thrown(error) == [ok |-> FALSE, error |-> error]

\* a catch block that converts only protocol errors and re-raises the rest
CallToolReturnMcpOnly(res) ==
    CASE res.ok -> [returned |-> TRUE, envelope |-> serializeResult(res.value)]
      [] res.error.kind = "McpError" ->
            [returned |-> TRUE, envelope |-> handleError(res.error)]
      [] OTHER -> [returned |-> FALSE, envelope |-> NoEnvelope]

\* return this.serializeResult(result)  /  catch: return this.handleError(error)
CallToolReturn(res) ==
    IF res.ok
    THEN [returned |-> TRUE, envelope |-> serializeResult(res.value)]
    ELSE [returned |-> TRUE, envelope |-> handleError(res.error)]

Finish(ctx, res) ==
    LET r == CallToolReturn(res) IN
    \* startTime is a local of the method: it is gone when the call is done
    [ctx EXCEPT !.c.pc = "done",
                !.c.startTime = 0,
                !.c.envelope = r.envelope,
                !.c.returned = @ + (IF r.returned THEN 1 ELSE 0),
                !.c.raised = ~r.returned,
                !.c.thrown = IF res.ok THEN NoThrown ELSE res.error]

(***************************************************************************)
(* The body shared by the handler methods                                  *)
(***************************************************************************)
\* a catch block that blames the caller's parameters for a backend fault
HandlerRethrowInvalidParams(h, error) ==
    IF IsNullish(error)
    THEN TypeError(<<"Cannot read properties of null (reading 'message')">>)
    ELSE LET errorMessage ==
                 IF error.message # NoMessage THEN error.message
                 ELSE <<"Unknown error">>
         IN  IF h.rethrow = "McpError"
             THEN McpError("InvalidParams", <<h.prefix>> \o errorMessage)
             ELSE Error(<<h.prefix>> \o errorMessage)

\* the catch block after trackRequest: the error the method re-raises
HandlerRethrow(h, error) ==
    IF IsNullish(error)
    THEN TypeError(<<"Cannot read properties of null (reading 'message')">>)
    ELSE LET errorMessage ==
                 IF error.message # NoMessage THEN error.message
                 ELSE <<"Unknown error">>
             detailedError ==
                 IF h.nested /\ error.nested # NoMessage THEN error.nested
                 ELSE errorMessage
         IN  IF h.rethrow = "McpError"
             THEN McpError("InternalError", <<h.prefix>> \o detailedError)
             ELSE Error(<<h.prefix>> \o detailedError)

\* catch (error) { this.trackRequest(startTime, false); throw ... }
\* (when trackRequest throws here, its error leaves the method in place of
\* the one the throw statement would have raised)
HandlerCatch(ctx, h, error) ==
    IF RecorderThrows(ctx)
    THEN Finish(ctx, Thrown(RecorderFault))
    ELSE Finish(trackRequest(ctx, FALSE), Thrown(HandlerRethrow(h, error)))

\* {status: 'success', <key>: result [, message]}
SuccessStructure(h, result) ==
    Obj(<<Prop("status", Lit("success")), Prop(h.key, result)>>
        \o (IF h.message = "" THEN <<>> ELSE <<Prop("message", Lit(h.message))>>))

\* {content: [{type: 'text', text}]} as the method returns it
HandlerEnvelope(text) ==
    Obj(<<Prop("content", Arr(<<Obj(<<Prop("type", Lit("text")),
                                      Prop("text", text)>>)>>))>>)

\* a method that puts the shared request counter into what it returns
HandlerResolveCounted(ctx, h, result) ==
    LET tracked == trackRequest(ctx, TRUE)
        counted == Obj(<<Prop("status", Lit("success")), Prop(h.key, result),
                         Prop("request", [t |-> "number", n |-> tracked.m.attempted])>>)
        s == JSONstringify(counted, "none", h.indent)
    IN  CASE h.returns = "structure" -> Finish(tracked, Returned(counted))
          [] s.ok -> Finish(tracked, Returned(HandlerEnvelope(s.text)))
          [] OTHER -> HandlerCatch(tracked, h, s.error)

\* the backend operation resolved: trackRequest(startTime, true), then the
\* return statement with its JSON.stringify, all inside the try block
HandlerResolve(ctx, h, result) ==
    LET tracked == trackRequest(ctx, TRUE)
        s == JSONstringify(SuccessStructure(h, result), "none", h.indent)
    IN  CASE RecorderThrows(ctx) -> HandlerCatch(ctx, h, RecorderFault)
          [] h.returns = "structure" ->
                Finish(tracked, Returned(SuccessStructure(h, result)))
          [] s.ok -> Finish(tracked, Returned(HandlerEnvelope(s.text)))
          [] OTHER -> HandlerCatch(tracked, h, s.error)

\* a method that reads its arguments with args?.field, so that an absent
\* bag reads as an empty one
IssueOperationOptionalChaining(ctx, h) ==
    [ctx EXCEPT !.c.ops = @ + 1, !.c.pc = "awaitBackend"]

\* a method that issues its backend operation a second time
IssueOperationTwice(ctx, h) ==
    IF h.argReads # {} /\ ctx.c.args = "absent"
    THEN HandlerCatch(ctx, h,
             TypeError(<<"Cannot read properties of undefined">>))
    ELSE [ctx EXCEPT !.c.ops = @ + 2, !.c.pc = "awaitBackend"]

\* evaluating the arguments of the backend operation, then issuing it
IssueOperation(ctx, h) ==
    IF h.argReads # {} /\ ctx.c.args = "absent"
    THEN HandlerCatch(ctx, h,
             TypeError(<<"Cannot read properties of undefined">>))
    ELSE [ctx EXCEPT !.c.ops = @ + 1, !.c.pc = "awaitBackend"]

\* a method that logs in only when the shared client is not authenticated
StartMethodLoginIfNeeded(ctx, h) ==
    LET started == [ctx EXCEPT !.c.startTime = ctx.t] IN
    IF h.login /\ ~ctx.s.authenticated
    THEN [started EXCEPT !.c.logins = @ + 1, !.c.pc = "awaitLogin"]
    ELSE IssueOperation(started, h)

\* a method that starts the login and issues the operation without waiting
StartMethodLoginNotAwaited(ctx, h) ==
    LET started == [ctx EXCEPT !.c.startTime = ctx.t] IN
    IF h.login
    THEN IssueOperation([started EXCEPT !.c.logins = @ + 1], h)
    ELSE IssueOperation(started, h)

\* const startTime = performance.now(); try { [await login();] await op(...)
StartMethod(ctx, h) ==
    LET started == [ctx EXCEPT !.c.startTime = ctx.t] IN
    IF h.login
    THEN [started EXCEPT !.c.logins = @ + 1, !.c.pc = "awaitLogin"]
    ELSE IssueOperation(started, h)

\* a group whose default case records a failed request before it throws
GroupHandleDefaultTracked(ctx) ==
    LET method == handle(ctx.c.group, ctx.c.name) IN
    IF method = "default"
    THEN Finish(trackRequest(ctx, FALSE),
                Thrown(McpError("MethodNotFound",
                                <<UnknownInGroup(ctx.c.group), ctx.c.name>>)))
    ELSE StartMethod([ctx EXCEPT !.c.method = method], MethodBody(method))

\* group.handle(toolName, args)
GroupHandle(ctx) ==
    LET method == handle(ctx.c.group, ctx.c.name) IN
    IF method = "default"
    THEN Finish(ctx, Thrown(McpError("MethodNotFound",
                                     <<UnknownInGroup(ctx.c.group), ctx.c.name>>)))
    ELSE StartMethod([ctx EXCEPT !.c.method = method], MethodBody(method))

\* a default case that throws a plain Error instead of an McpError
DispatchDefaultPlainError(ctx) ==
    LET route == Route(ctx.c.name) IN
    CASE route = "inline" ->
            Finish(ctx, Returned(Obj(<<Prop("status", Lit("healthy")),
                                       Prop("timestamp", IsoString(ctx.t))>>)))
      [] route = "default" ->
            Finish(ctx, Thrown(Error(<<"Unknown tool: ", ctx.c.name>>)))
      [] OTHER -> GroupHandle([ctx EXCEPT !.c.group = route])

\* the switch on request.params.name
Dispatch(ctx) ==
    LET route == Route(ctx.c.name) IN
    CASE route = "inline" ->
            Finish(ctx, Returned(Obj(<<Prop("status", Lit("healthy")),
                                       Prop("timestamp", IsoString(ctx.t))>>)))
      [] route = "default" ->
            Finish(ctx, Thrown(McpError("MethodNotFound",
                                        <<"Unknown tool: ", ctx.c.name>>)))
      [] OTHER -> GroupHandle([ctx EXCEPT !.c.group = route])

\* the session state of the shared ADTClient after an operation resolved
SessionAfter(s, op) ==
    CASE op = "login" -> [s EXCEPT !.authenticated = TRUE]
      [] op \in {"logout", "dropSession"} -> [s EXCEPT !.authenticated = FALSE]
      [] OTHER -> s

(***************************************************************************)
(* Actions                                                                 *)
(***************************************************************************)
Context(i, time) == [c |-> calls[i], m |-> metrics, s |-> session, t |-> time]

Commit(i, ctx) ==
    \E after \in {ctx} :
        /\ calls' = [calls EXCEPT ![i] = after.c]
        /\ metrics' = after.m
        /\ session' = after.s
        /\ now' = after.t
        /\ UNCHANGED server

\* a CallTool request arrives: the handler runs up to its first await that
\* has to wait for the backend, or to its return
CallTool(i) ==
    /\ calls[i].pc = "idle"
    \* the invocations after the first are numbered in their order of arrival
    /\ i > 2 => calls[i - 1].pc # "idle"
    /\ \E name \in Names(i), args \in ArgBags :
          LET ctx == Context(i, now) IN
          Commit(i, Dispatch([ctx EXCEPT !.c.name = name, !.c.args = args]))

\* a session-ensure that is started again whenever it rejects
LoginSettleRetry(i) ==
    /\ calls[i].pc = "awaitLogin"
    /\ \E outcome \in LoginOutcomes :
          LET ctx == [Context(i, now + 1) EXCEPT !.c.login = outcome]
              h == MethodBody(calls[i].method)
          IN  IF outcome.kind = "resolved"
              THEN Commit(i, IssueOperation(
                                 [ctx EXCEPT !.s = SessionAfter(ctx.s, "login")], h))
              ELSE Commit(i, [Context(i, now) EXCEPT !.c.login = outcome])

\* await this.adtclient.login() settles
LoginSettle(i) ==
    /\ calls[i].pc = "awaitLogin"
    /\ \E outcome \in LoginOutcomes :
          LET ctx == [Context(i, now + 1) EXCEPT !.c.login = outcome]
              h == MethodBody(calls[i].method)
          IN  IF outcome.kind = "resolved"
              THEN Commit(i, IssueOperation(
                                 [ctx EXCEPT !.s = SessionAfter(ctx.s, "login")], h))
              ELSE Commit(i, HandlerCatch(ctx, h, outcome.error))

\* the awaited backend operation settles
BackendSettle(i) ==
    /\ calls[i].pc = "awaitBackend"
    /\ \E outcome \in BackendOutcomes :
          LET ctx == [Context(i, now + 1) EXCEPT !.c.backend = outcome]
              h == MethodBody(calls[i].method)
          IN  IF outcome.kind = "resolved"
              THEN Commit(i, HandlerResolve(
                                 [ctx EXCEPT !.s = SessionAfter(ctx.s, h.op)],
                                 h, outcome.value))
              ELSE Commit(i, HandlerCatch(ctx, h, outcome.error))

Next ==
    \E i \in 1..MaxCalls :
        \/ CallTool(i)
        \/ LoginSettle(i)
        \/ BackendSettle(i)

Spec == Init /\ [][Next]_vars

(***************************************************************************)
(* The server with a backend whose calls all settle: invocations of a      *)
(* method without and of one with session-ensure, in flight together       *)
(***************************************************************************)
CallToolSettling(i) ==
    /\ calls[i].pc = "idle"
    \* the invocations are numbered in their order of arrival
    /\ i > 1 => calls[i - 1].pc # "idle"
    \* the first invocation is of a method with session-ensure, the ones that
    \* arrive while it waits are of a method without
    /\ \E name \in IF i = 1 THEN {"getTableContent"} ELSE {"getObjectPath"},
          args \in ArgBags :
          LET ctx == Context(i, now) IN
          Commit(i, Dispatch([ctx EXCEPT !.c.name = name, !.c.args = args]))

NextSettling ==
    \E i \in 1..MaxCalls :
        \/ CallToolSettling(i)
        \/ LoginSettle(i)
        \/ BackendSettle(i)

\* every awaited promise of the backend client settles, and the event loop
\* then runs the continuation of the method that awaits it
SpecSettling ==
    /\ Init /\ [][NextSettling]_vars
    /\ \A i \in 1..MaxCalls : WF_vars(LoginSettle(i)) /\ WF_vars(BackendSettle(i))

(***************************************************************************)
(* The server answering ListTools requests between its CallTool requests   *)
(***************************************************************************)
\* a ListTools request arrives: the handler has no await and returns
\* {tools: [...]} at once
ListToolsRequest(i) ==
    /\ calls[i].pc = "idle"
    /\ i > 2 => calls[i - 1].pc # "idle"
    /\ calls' = [calls EXCEPT ![i].pc = "listed", ![i].tools = ListTools]
    /\ UNCHANGED <<metrics, session, now, server>>

NextCatalog ==
    \E i \in 1..MaxCalls :
        \/ ListToolsRequest(i)
        \/ CallTool(i)
        \/ LoginSettle(i)
        \/ BackendSettle(i)

SpecCatalog == Init /\ [][NextCatalog]_vars

(***************************************************************************)
(* A handler class on its own: handle(toolName, args) called with any name *)
(* on any of the classes whose source is available                         *)
(***************************************************************************)
\* every name some class declares, the names only the dispatcher knows, and
\* a name nobody knows
GroupToolNames ==
    UNION {Range(getTools(group)) : group \in SourceGroups} \cup ToolNames

\* group.handle(toolName, args), up to the first await that has to wait
GroupCall ==
    /\ calls[1].pc = "idle"
    /\ \E group \in SourceGroups, name \in GroupToolNames, args \in ArgBags :
          LET ctx == Context(1, now) IN
          Commit(1, GroupHandle([ctx EXCEPT !.c.name = name, !.c.args = args,
                                            !.c.group = group]))

NextGroup ==
    \/ GroupCall
    \/ LoginSettle(1)
    \/ BackendSettle(1)

SpecGroup == Init /\ [][NextGroup]_vars

(***************************************************************************)
(* The process from its start: the module-level `new AbapAdtServer()`,     *)
(* app.listen, and then the requests of one client                         *)
(***************************************************************************)
InitBoot ==
    /\ NoRequests
    /\ \E env \in Environments : server = Loading(env)

\* !process.env[v]: unset, or the empty string
IsMissing(env, v) == env[v] # "set"

\* a constructor that checks SAP_URL only
ConstructCheckUrlOnly ==
    /\ server.phase = "loading"
    /\ LET Missing(v) == IsMissing(server.env, v)
           missingVars == SelectSeq(<<"SAP_URL">>, Missing)
       IN  IF Len(missingVars) > 0
           THEN server' = [server EXCEPT !.phase = "crashed",
                                         !.missingVars = missingVars]
           ELSE server' = [server EXCEPT !.phase = "constructed",
                                         !.adtClient = TRUE,
                                         !.handlers = Groups]
    /\ UNCHANGED <<calls, metrics, session, now>>

\* const server = new AbapAdtServer(): the constructor throws at module
\* level, which ends the process, or creates the client and the groups
Construct ==
    /\ server.phase = "loading"
    /\ LET Missing(v) == IsMissing(server.env, v)
           missingVars == SelectSeq(RequiredVars, Missing)
       IN  IF Len(missingVars) > 0
           THEN server' = [server EXCEPT !.phase = "crashed",
                                         !.missingVars = missingVars]
           ELSE server' = [server EXCEPT !.phase = "constructed",
                                         !.adtClient = TRUE,
                                         !.handlers = Groups]
    /\ UNCHANGED <<calls, metrics, session, now>>

\* app.listen(port, ...): the callback runs, or the 'error' listener calls
\* process.exit(1)
Listen ==
    /\ server.phase = "constructed"
    /\ \/ server' = [server EXCEPT !.phase = "listening"]
       \/ server' = [server EXCEPT !.phase = "crashed"]
    /\ UNCHANGED <<calls, metrics, session, now>>

\* requests reach the handlers only through the listening express app
Serve ==
    /\ server.phase = "listening"
    /\ \/ CallTool(1)
       \/ LoginSettle(1)
       \/ BackendSettle(1)

NextBoot ==
    \/ Construct
    \/ Listen
    \/ Serve

SpecBoot == InitBoot /\ [][NextBoot]_vars

(***************************************************************************)
(* The server with a metrics recorder that may fail: trackRequest throws   *)
(* during the invocations marked so when they arrive                       *)
(***************************************************************************)
CallToolRecorderFault(i) ==
    /\ calls[i].pc = "idle"
    /\ \E name \in Names(i), args \in ArgBags :
          LET ctx == Context(i, now) IN
          Commit(i, Dispatch([ctx EXCEPT !.c.name = name, !.c.args = args,
                                         !.c.recorder = "throws"]))

NextRecorder ==
    \/ CallTool(1)
    \/ CallToolRecorderFault(1)
    \/ LoginSettle(1)
    \/ BackendSettle(1)

SpecRecorder == Init /\ [][NextRecorder]_vars

(***************************************************************************)
(* The catch block of the CallTool handler on its own: whatever is thrown  *)
(* inside the try block is handed to handleError                           *)
(***************************************************************************)
ErrorCodes == {"InternalError", "MethodNotFound"}
ErrorMessages ==
    {<<"Unknown tool: ", "unknownTool">>, <<"Failed to serialize result">>,
     <<"timeout">>}

\* protocol errors, plain Errors, and thrown values that are not Errors
Throwables ==
    {McpError(code, message) : code \in ErrorCodes, message \in ErrorMessages}
        \cup {Error(message) : message \in ErrorMessages}
        \cup {DetailedFault, StringFault, NullFault}

\* catch (error) { return this.handleError(error); }
CatchThrown(i) ==
    /\ calls[i].pc = "idle"
    /\ \E error \in Throwables :
          Commit(i, Finish(Context(i, now), Thrown(error)))

NextCodec == \E i \in 1..MaxCalls : CatchThrown(i)

SpecCodec == Init /\ [][NextCodec]_vars

(***************************************************************************)
(* Reading an envelope                                                     *)
(***************************************************************************)
Done(i) == calls[i].pc = "done"

\* Success: exactly one text block, no isError
IsSuccess(e) ==
    /\ DOMAIN e = {"content"}
    /\ Len(e.content) = 1
    /\ e.content[1].type = "text"

\* Failure: exactly one text block holding {error, code}, isError = true
IsFailure(e) ==
    /\ DOMAIN e = {"content", "isError"}
    /\ e.isError = TRUE
    /\ Len(e.content) = 1
    /\ e.content[1].type = "text"
    /\ LET payload == JSONparse(e.content[1].text) IN
          /\ payload.t = "object"
          /\ Len(payload.f) = 2
          /\ payload.f[1].k = "error"
          /\ payload.f[2].k = "code"

\* the text of the single block, decoded once
Payload(e) == JSONparse(e.content[1].text)
FailureCode(e) == Payload(e).f[2].v.code
FailureMessage(e) == Payload(e).f[1].v.tokens

TypeOK ==
    /\ \A i \in 1..MaxCalls :
          calls[i].pc \in {"idle", "awaitLogin", "awaitBackend", "done", "listed"}
    /\ metrics.attempted \in Nat

\* the JSON document tree holds string somewhere, also inside a string that
\* is itself JSON text
RECURSIVE Holds(_, _)
Holds(tree, string) ==
    CASE tree = string -> TRUE
      [] tree.t = "object" ->
            \E k \in 1..Len(tree.f) : Holds(tree.f[k].v, string)
      [] tree.t = "array" ->
            \E k \in 1..Len(tree.items) : Holds(tree.items[k], string)
      [] tree.t = "string" /\ "json" \in DOMAIN tree -> Holds(tree.json, string)
      [] OTHER -> FALSE

\* the invocation reached a handler method (its group recognised the name)
Handled(i) == calls[i].method # "none"

\* a ListTools request was answered in slot i
Listed(i) == calls[i].pc = "listed"

Calls == 1..MaxCalls

(***************************************************************************)
(* C1  Envelope totality: every invocation of the call-tool operation,     *)
(* whatever the name, the argument bag and the backend outcome, returns    *)
(* exactly one envelope, which is either a Success or a Failure and never  *)
(* both or neither; nothing is raised to the transport, and no envelope    *)
(* exists before the invocation has completed.                             *)
(***************************************************************************)
EnvelopeTotality ==
    \A i \in Calls :
        /\ ~calls[i].raised
        /\ Done(i) =>
              /\ calls[i].returned = 1
              /\ IsSuccess(calls[i].envelope) # IsFailure(calls[i].envelope)
        /\ ~Done(i) =>
              /\ calls[i].returned = 0
              /\ calls[i].envelope = NoEnvelope

\* a known tool, called without an argument bag, whose backend operation
\* rejected with a value that is not an Error, has been answered
EnvelopeTotalityWitness ==
    \E i \in Calls :
        /\ Done(i)
        /\ calls[i].name = "getTableContent"
        /\ calls[i].args = "present"
        /\ calls[i].backend = Rejected(NullFault)
        /\ IsFailure(calls[i].envelope)

(***************************************************************************)
(* C2  Total routing: invoking a name that the catalog-listing operation   *)
(* returns never ends in a Failure with the MethodNotFound code.           *)
(***************************************************************************)
TotalRouting ==
    \A i \in Calls :
        (Done(i) /\ calls[i].name \in Range(ListTools)) =>
            ~(IsFailure(calls[i].envelope)
                /\ FailureCode(calls[i].envelope) = "MethodNotFound")

(***************************************************************************)
(* C3  A name that the dispatcher's switch does not route is answered with *)
(* a Failure whose code is MethodNotFound and whose message contains the   *)
(* name; no group's handle is called, no session-ensure and no backend     *)
(* operation is issued, and nothing is recorded.                           *)
(***************************************************************************)
UnknownToolNotFound ==
    \A i \in Calls :
        (calls[i].pc # "idle" /\ Route(calls[i].name) = "default") =>
            /\ Done(i)
            /\ IsFailure(calls[i].envelope)
            /\ FailureCode(calls[i].envelope) = "MethodNotFound"
            /\ \E k \in 1..Len(FailureMessage(calls[i].envelope)) :
                  FailureMessage(calls[i].envelope)[k] = calls[i].name
            /\ calls[i].group = "none"
            /\ calls[i].logins = 0
            /\ calls[i].ops = 0
            /\ calls[i].tracked = 0

UnknownToolWitness ==
    \E i \in Calls :
        /\ Done(i)
        /\ calls[i].name = "unknownTool"
        /\ FailureMessage(calls[i].envelope) = <<"Unknown tool: ", "unknownTool">>

(***************************************************************************)
(* C4  healthcheck, with or without arguments, in any session state and    *)
(* whatever else is in flight, is answered with a Success whose text       *)
(* decodes to {status: 'healthy', timestamp: <ISO string>}; it calls no    *)
(* handler group, no session-ensure and no backend operation.              *)
(***************************************************************************)
HealthcheckInline ==
    \A i \in Calls :
        (calls[i].pc # "idle" /\ calls[i].name = Healthcheck) =>
            /\ Done(i)
            /\ IsSuccess(calls[i].envelope)
            /\ LET payload == Payload(calls[i].envelope) IN
                  /\ payload.t = "object"
                  /\ Len(payload.f) = 2
                  /\ payload.f[1] = Prop("status", Lit("healthy"))
                  /\ payload.f[2].k = "timestamp"
                  /\ payload.f[2].v.t = "string"
                  /\ DOMAIN payload.f[2].v = {"t", "iso"}
            /\ calls[i].group = "none"
            /\ calls[i].logins = 0
            /\ calls[i].ops = 0
            /\ calls[i].tracked = 0

\* healthcheck without an argument bag was answered while another
\* invocation awaits its backend operation on an authenticated client
HealthcheckWitness ==
    \E i, j \in Calls :
        /\ Done(i)
        /\ calls[i].name = Healthcheck
        /\ calls[i].args = "absent"
        /\ IsSuccess(calls[i].envelope)
        /\ calls[j].pc = "awaitBackend"
        /\ session.authenticated

(***************************************************************************)
(* C5  Failure message redaction, end to end: when the backend operation   *)
(* of a tool delegated to a handler group rejects with Error('timeout'),   *)
(* the envelope is a Failure with code InternalError whose message is      *)
(* exactly 'Internal server error'.                                        *)
(***************************************************************************)
TimeoutRedacted ==
    \A i \in Calls :
        (Done(i) /\ Handled(i) /\ calls[i].backend = Rejected(TimeoutFault)) =>
            /\ IsFailure(calls[i].envelope)
            /\ FailureCode(calls[i].envelope) = "InternalError"
            /\ FailureMessage(calls[i].envelope) = <<"Internal server error">>

(***************************************************************************)
(* C6  Arbitrary-precision round trip: when the backend operation of a     *)
(* handler-group tool resolves to {count: 9007199254740993n}, the envelope *)
(* is a Success in whose payload the field is the string of the exact      *)
(* decimal digits.                                                         *)
(***************************************************************************)
BigIntRoundTrip ==
    \A i \in Calls :
        (Done(i) /\ Handled(i) /\ calls[i].backend = Resolved(BigValue)) =>
            /\ IsSuccess(calls[i].envelope)
            /\ Holds(Payload(calls[i].envelope), DigitString(BigCount))

(***************************************************************************)
(* C7  For a successful invocation of a handler-group tool the single text *)
(* block of the Success envelope, decoded once as JSON, is the tagged      *)
(* structure {status: 'success', <payload key>: <backend result>} of that  *)
(* operation.                                                              *)
(***************************************************************************)
TaggedPayload ==
    \A i \in Calls :
        (Done(i) /\ Handled(i) /\ calls[i].backend = Resolved(PlainValue)) =>
            /\ IsSuccess(calls[i].envelope)
            /\ LET payload == Payload(calls[i].envelope) IN
                  /\ payload.t = "object"
                  /\ Len(payload.f) >= 2
                  /\ payload.f[1] = Prop("status", Lit("success"))
                  /\ payload.f[2] = Prop(MethodBody(calls[i].method).key, PlainValue)

(***************************************************************************)
(* C8  Every call of a group's handle for a recognised tool reports        *)
(* exactly one observation (one trackRequest call), whatever the outcome   *)
(* of the session-ensure, of the backend operation and of the              *)
(* serialization of the success payload; the start time is captured before *)
(* any session or backend work, so nothing is reported while the call      *)
(* still awaits the backend.                                               *)
(***************************************************************************)
OneObservation ==
    \A i \in Calls :
        /\ (Done(i) /\ Handled(i)) => calls[i].tracked = 1
        /\ calls[i].pc \in {"awaitLogin", "awaitBackend"} =>
              /\ calls[i].tracked = 0
              /\ calls[i].startTime <= now

(***************************************************************************)
(* C9  Metrics consistency under overlap: once N overlapping invocations   *)
(* of handler-group tools have all completed, whatever the interleaving    *)
(* and the mix of successes and failures,                                  *)
(* attempted = succeeded + failed = N.                                     *)
(***************************************************************************)
MetricsConsistency ==
    (\A i \in Calls : Done(i) /\ Handled(i)) =>
        /\ metrics.attempted = metrics.succeeded + metrics.failed
        /\ metrics.attempted = MaxCalls

(***************************************************************************)
(* C10  Serialization failure: when the backend operation of a known tool  *)
(* resolved but encoding the success payload fails, the invocation is      *)
(* answered with an InternalError Failure instead of raising, and the call *)
(* is recorded as a success: the serialization fault adds no failure       *)
(* observation.                                                            *)
(***************************************************************************)
SerializationFailureTruthful ==
    \A i \in Calls :
        (Done(i) /\ Handled(i) /\ calls[i].backend = Resolved(Circular)) =>
            /\ ~calls[i].raised
            /\ IsFailure(calls[i].envelope)
            /\ FailureCode(calls[i].envelope) = "InternalError"
            /\ calls[i].trackedOk = 1
            /\ calls[i].tracked - calls[i].trackedOk = 0

(***************************************************************************)
(* C11  handleError classifies the value thrown inside the dispatcher: for *)
(* an McpError the Failure envelope carries that error's code and message  *)
(* unchanged; for every other thrown value, a plain Error or a value that  *)
(* is not an Error, it is the fixed {error: 'Internal server error',       *)
(* code: InternalError}, so that two unclassified faults with different    *)
(* contents are answered with identical envelopes.                         *)
(***************************************************************************)
ErrorClassification ==
    /\ \A i \in Calls :
          (Done(i) /\ calls[i].thrown # NoThrown) =>
              /\ IsFailure(calls[i].envelope)
              /\ IF calls[i].thrown.kind = "McpError"
                 THEN /\ FailureCode(calls[i].envelope) = calls[i].thrown.code
                      /\ FailureMessage(calls[i].envelope) = calls[i].thrown.message
                 ELSE /\ FailureCode(calls[i].envelope) = "InternalError"
                      /\ FailureMessage(calls[i].envelope)
                            = <<"Internal server error">>
    /\ \A i, j \in Calls :
          (/\ Done(i) /\ calls[i].thrown # NoThrown
           /\ Done(j) /\ calls[j].thrown # NoThrown
           /\ calls[i].thrown.kind # "McpError"
           /\ calls[j].thrown.kind # "McpError") =>
              calls[i].envelope = calls[j].envelope

\* a plain Error and a thrown string, of different contents, were both
\* answered
ErrorClassificationWitness ==
    \E i, j \in Calls :
        /\ Done(i) /\ calls[i].thrown = DetailedFault
        /\ Done(j) /\ calls[j].thrown = StringFault
        /\ calls[i].envelope = calls[j].envelope

(***************************************************************************)
(* C12  The catalog listing returns the names declared by the groups'      *)
(* getTools in the order auth, object, class, code analysis, DDIC, general *)
(* info, followed by healthcheck as the last entry; every listing returns  *)
(* the same sequence, whatever invocations were made before it.            *)
(***************************************************************************)
CatalogOrder ==
    /\ \A i \in Calls :
          Listed(i) =>
              LET tools == calls[i].tools
                  n == Len(tools)
              IN  /\ n >= 1
                  /\ tools[n] = "healthcheck"
                  /\ SubSeq(tools, 1, n - 1)
                        = AuthHandlerTools \o ObjectHandlerTools \o ClassHandlerTools
                            \o CodeAnalysisHandlerTools \o DdicHandlerTools
                            \o GeneralInfoHandlerTools
    /\ \A i, j \in Calls :
          (Listed(i) /\ Listed(j)) => calls[i].tools = calls[j].tools

\* a listing was answered next to a completed invocation that logged the
\* shared client in
CatalogOrderWitness ==
    \E i, j \in Calls :
        /\ Listed(i)
        /\ Done(j) /\ Handled(j) /\ IsSuccess(calls[j].envelope)
        /\ session.authenticated

(***************************************************************************)
(* C13  The tool names of the catalog a listing returns are pairwise       *)
(* distinct.                                                               *)
(***************************************************************************)
CatalogNamesDistinct ==
    \A i \in Calls :
        Listed(i) =>
            \A a, b \in 1..Len(calls[i].tools) :
                a # b => calls[i].tools[a] # calls[i].tools[b]

\* a listing returned the names of the object group, of the code analysis
\* group and healthcheck together
CatalogNamesDistinctWitness ==
    \E i \in Calls :
        /\ Listed(i)
        /\ {"getObjects", "getUsageReferences", "healthcheck"}
              \subseteq Range(calls[i].tools)

(***************************************************************************)
(* C14  For each handler class in the source (ObjectHandler, ClassHandler, *)
(* CodeAnalysisHandler, DdicHandler, GeneralInfoHandler, ReferenceHandler, *)
(* every draft of them), handle runs a method for a name exactly when      *)
(* getTools declares that name; for every other name it reaches the        *)
(* 'unknown tool' default.                                                 *)
(***************************************************************************)
DeclaredIffHandled ==
    \A i \in Calls :
        (calls[i].pc # "idle" /\ calls[i].group \in SourceGroups) =>
            /\ Handled(i) <=> calls[i].name \in Range(getTools(calls[i].group))
            /\ ~Handled(i) =>
                  /\ Done(i)
                  /\ calls[i].thrown.kind = "McpError"
                  /\ calls[i].thrown.code = "MethodNotFound"

\* handle of the second ClassHandler ran getClassComponents to its end
DeclaredIffHandledWitness ==
    \E i \in Calls :
        /\ Done(i)
        /\ calls[i].group = "class2"
        /\ calls[i].name = "getClassComponents"
        /\ calls[i].method = "ClassHandler2_handleClassComponents"
        /\ calls[i].backend = Resolved(PlainValue)
        /\ IsSuccess(calls[i].envelope)

(***************************************************************************)
(* C15  The dispatcher delegates a name to a group only if that group's    *)
(* getTools declares the name, so that an invocation routed by the         *)
(* dispatcher never ends in the group's own 'unknown tool' default.        *)
(***************************************************************************)
RoutedOnlyIfDeclared ==
    \A i \in Calls :
        calls[i].group # "none" =>
            /\ calls[i].name \in Range(getTools(calls[i].group))
            /\ Handled(i)

(***************************************************************************)
(* C16  For every tool of a handler class in the source, a rejected        *)
(* backend call is answered with a Failure whose code is InternalError,    *)
(* whether the method re-raises the fault as an McpError or as a plain     *)
(* Error.                                                                  *)
(***************************************************************************)
RejectedIsInternalError ==
    \A i \in Calls :
        (/\ Done(i) /\ Handled(i)
         /\ calls[i].group \in SourceGroups
         /\ calls[i].backend.kind = "rejected") =>
            /\ IsFailure(calls[i].envelope)
            /\ FailureCode(calls[i].envelope) = "InternalError"

\* a method that re-raises an McpError and one that re-raises a plain Error
\* have both answered a rejected backend call
RejectedIsInternalErrorWitness ==
    \E i, j \in Calls :
        /\ Done(i) /\ Handled(i)
        /\ calls[i].backend = Rejected(DetailedFault)
        /\ calls[i].thrown.kind = "McpError"
        /\ Done(j) /\ calls[j].name = "getTableContent"
        /\ calls[j].backend = Rejected(TimeoutFault)
        /\ calls[j].thrown.kind = "Error"

(***************************************************************************)
(* C17  For every tool of a handler class in the source, when the backend  *)
(* fault carries a nested response.data.message next to its top-level      *)
(* message, the error the method re-raises carries the nested one.         *)
(***************************************************************************)
NestedMessagePreferred ==
    \A i \in Calls :
        (/\ Done(i) /\ Handled(i)
         /\ calls[i].group \in SourceGroups
         /\ calls[i].backend = Rejected(DetailedFault)) =>
            calls[i].thrown.message
                = <<MethodBody(calls[i].method).prefix>> \o DetailedFault.nested

(***************************************************************************)
(* C18  A configuration failure is fatal at start: when one of SAP_URL,    *)
(* SAP_USER, SAP_PASSWORD is missing, the constructor throws before the    *)
(* backend client or any handler group is created, the process never       *)
(* listens and no invocation is ever answered; SAP_CLIENT and SAP_LANGUAGE *)
(* are not required: the constructor throws only when one of the three     *)
(* required variables is missing.                                          *)
(***************************************************************************)
ConfigurationFatal ==
    LET missing == \E k \in 1..Len(RequiredVars) :
                       IsMissing(server.env, RequiredVars[k])
    IN  /\ missing =>
              /\ server.phase \in {"loading", "crashed"}
              /\ ~server.adtClient
              /\ server.handlers = {}
              /\ \A i \in Calls : calls[i].pc = "idle"
        /\ ~missing => server.missingVars = <<>>
        /\ (~missing /\ server.phase # "loading") =>
              /\ server.adtClient
              /\ server.handlers = Groups
        /\ \A i \in Calls : calls[i].pc # "idle" => server.phase = "listening"

\* the process has ended in the constructor because SAP_PASSWORD alone was
\* missing
ConfigurationFatalWitness ==
    /\ server.phase = "crashed"
    /\ server.missingVars = <<"SAP_PASSWORD">>
    /\ server.env["SAP_CLIENT"] = "set"

(***************************************************************************)
(* C19  A failure of the metrics recorder does not change the outcome of   *)
(* an invocation: when trackRequest throws while a resolved backend call   *)
(* is recorded, the invocation still returns the Success envelope, and     *)
(* when it throws while a rejected one is recorded, still a Failure.       *)
(***************************************************************************)
RecorderFaultHarmless ==
    \A i \in Calls :
        (/\ Done(i) /\ Handled(i)
         /\ calls[i].group \in SourceGroups
         /\ calls[i].recorder = "throws") =>
            /\ calls[i].backend = Resolved(PlainValue) =>
                  IsSuccess(calls[i].envelope)
            /\ calls[i].backend.kind = "rejected" =>
                  IsFailure(calls[i].envelope)

(***************************************************************************)
(* C20  In every method that ensures the session (adtclient.login()), the  *)
(* login has resolved before the backend operation is issued; when the     *)
(* login rejects, the backend operation is never issued, one failure       *)
(* observation is recorded and the invocation is answered with a Failure.  *)
(***************************************************************************)
LoginBeforeOperation ==
    \A i \in Calls :
        (Handled(i) /\ MethodBody(calls[i].method).login) =>
            /\ calls[i].pc = "awaitLogin" =>
                  /\ calls[i].login = NotSettled
                  /\ calls[i].ops = 0
            /\ calls[i].ops >= 1 =>
                  /\ calls[i].login.kind = "resolved"
                  /\ calls[i].logins = 1
            /\ calls[i].login.kind = "rejected" =>
                  /\ Done(i)
                  /\ calls[i].ops = 0
                  /\ calls[i].backend = NotSettled
                  /\ calls[i].tracked = 1
                  /\ calls[i].trackedOk = 0
                  /\ metrics.failed = 1
                  /\ IsFailure(calls[i].envelope)

\* handleUsageReferences of ReferenceHandler was answered after its login
\* rejected
LoginBeforeOperationWitness ==
    \E i \in Calls :
        /\ Done(i)
        /\ calls[i].method = "ReferenceHandler_handleUsageReferences"
        /\ calls[i].login = Rejected(TimeoutFault)
        /\ calls[i].ops = 0
        /\ IsFailure(calls[i].envelope)

(***************************************************************************)
(* C21  Each call of a handler class for a name it recognises issues at    *)
(* most one backend operation, the session-ensure not counted, and exactly *)
(* one when the session-ensure and the reading of the arguments succeeded; *)
(* no operation is issued again, after a success or after a failure.      *)
(***************************************************************************)
OneOperation ==
    \A i \in Calls :
        Handled(i) =>
            LET h == MethodBody(calls[i].method)
                ensured == ~h.login \/ calls[i].login.kind = "resolved"
                argsRead == h.argReads = {} \/ calls[i].args = "present"
            IN  /\ calls[i].ops <= 1
                /\ calls[i].logins <= 1
                /\ (ensured /\ argsRead) => calls[i].ops = 1
                /\ calls[i].backend # NotSettled => calls[i].ops = 1
                /\ ~(ensured /\ argsRead) => calls[i].ops = 0

\* handleTableContents was answered after its login resolved and its one
\* backend operation rejected
OneOperationWitness ==
    \E i \in Calls :
        /\ Done(i)
        /\ calls[i].method = "handleTableContents"
        /\ calls[i].login.kind = "resolved"
        /\ calls[i].backend = Rejected(TimeoutFault)
        /\ calls[i].ops = 1

(***************************************************************************)
(* C22  Operations run against an authenticated client: whenever a handler *)
(* class issues a backend operation, the shared client is authenticated,   *)
(* by a session-ensure or a login that resolved earlier in that invocation *)
(* or in a previous one.                                                   *)
(***************************************************************************)
IssuedOnAuthenticatedClient ==
    [][\A i \in Calls :
          (/\ calls[i].ops = 0
           /\ calls'[i].ops = 1
           /\ calls'[i].group \in SourceGroups) => session'.authenticated]_vars

(***************************************************************************)
(* C23  Session establishment is not serialized: every invocation of a     *)
(* session-ensuring method starts its own login on the shared client,      *)
(* whatever the other invocations are doing and whatever the session state *)
(* is, so that two logins can be in progress together; each such           *)
(* invocation still returns exactly one envelope.                          *)
(***************************************************************************)
LoginNotSerialized ==
    \A i \in Calls :
        (Handled(i) /\ MethodBody(calls[i].method).login) =>
            /\ calls[i].logins = 1
            /\ calls[i].pc = "awaitLogin" => calls[i].login = NotSettled
            /\ Done(i) =>
                  /\ calls[i].returned = 1
                  /\ ~calls[i].raised
                  /\ IsSuccess(calls[i].envelope) # IsFailure(calls[i].envelope)

\* runSqlQuery and getTableContent both wait for their own login on the
\* shared client
LoginNotSerializedWitness ==
    \E i, j \in Calls :
        /\ i # j
        /\ calls[i].name = "runSqlQuery"
        /\ calls[i].pc = "awaitLogin"
        /\ calls[j].name = "getTableContent"
        /\ calls[j].pc = "awaitLogin"

(***************************************************************************)
(* C24  Overlapping invocations are independent: they complete in either   *)
(* order, and the envelope of an invocation of a handler-group tool is     *)
(* determined by its own tool name, its own arguments and the outcomes of  *)
(* its own session-ensure and backend call; two invocations that agree on  *)
(* these are answered with the same envelope, whatever the other one did   *)
(* in between.                                                             *)
(***************************************************************************)
EnvelopeOwnInputsOnly ==
    \A i, j \in Calls :
        (/\ Done(i) /\ Handled(i)
         /\ Done(j) /\ Handled(j)
         /\ calls[i].name = calls[j].name
         /\ calls[i].args = calls[j].args
         /\ calls[i].login = calls[j].login
         /\ calls[i].backend = calls[j].backend) =>
            /\ calls[i].envelope = calls[j].envelope
            /\ calls[i].thrown = calls[j].thrown

\* two invocations of classComponents were in flight together; the one in
\* the second slot has been answered with a Success while the one that
\* arrived at time 0 in the first slot still waits
EnvelopeOwnInputsOnlyWitness ==
    /\ calls[1].name = "classComponents"
    /\ calls[1].pc = "awaitBackend"
    /\ calls[1].startTime = 0
    /\ Done(2)
    /\ calls[2].name = "classComponents"
    /\ calls[2].backend = Resolved(PlainValue)
    /\ IsSuccess(calls[2].envelope)

(***************************************************************************)
(* C25  No timeout and no cancellation: provided every call of the backend *)
(* client, the session-ensure included, eventually resolves or rejects,    *)
(* every invocation eventually returns an envelope; and an invocation that *)
(* still waits never prevents another one from starting or from            *)
(* completing.                                                             *)
(***************************************************************************)
EventuallyAnswered ==
    /\ \A i \in Calls :
          (calls[i].pc \in {"awaitLogin", "awaitBackend"})
              ~> (Done(i) /\ calls[i].returned = 1)
    \* whatever the other invocations wait for, the continuation of a
    \* settled await can run and the next request can be taken up
    /\ [](\A i \in Calls :
            /\ calls[i].pc = "awaitLogin" => ENABLED LoginSettle(i)
            /\ calls[i].pc = "awaitBackend" => ENABLED BackendSettle(i)
            /\ (calls[i].pc = "idle" /\ \A j \in 1..(i - 1) : calls[j].pc # "idle")
                  => ENABLED CallToolSettling(i))

\* getObjectPath arrived while getTableContent waited for its
\* session-ensure, and was answered while that one still waits
EventuallyAnsweredWitness ==
    /\ calls[1].name = "getTableContent"
    /\ calls[1].pc = "awaitLogin"
    /\ Done(2)
    /\ calls[2].name = "getObjectPath"
    /\ calls[2].backend = Resolved(PlainValue)
    /\ IsSuccess(calls[2].envelope)

(***************************************************************************)
(* C26  Each handler maps the declared arguments by name: once a method    *)
(* of a handler class has issued its backend operation, every argument     *)
(* field it read is a property the tool's input schema declares, and every *)
(* property the schema lists as required is among the fields it read and   *)
(* forwarded.                                                              *)
(***************************************************************************)
ArgumentsMappedByName ==
    \A i \in Calls :
        (calls[i].group \in Groups \cap SourceGroups /\ calls[i].ops > 0) =>
            LET schema == inputSchema(calls[i].group, calls[i].name)
                h == MethodBody(calls[i].method)
            IN  /\ h.argReads \subseteq schema.properties
                /\ schema.required \subseteq h.argReads

(***************************************************************************)
(* C29  Every advertised tool descriptor has a self-consistent input       *)
(* schema: in every listing the server returned, each name in a            *)
(* descriptor's inputSchema.required is a key of inputSchema.properties, *)
(* and no property marked `optional: true` is listed in required.          *)
(***************************************************************************)
AdvertisedSchemasConsistent ==
    \A i \in Calls : \A k \in 1..Len(calls[i].tools) :
        \A group \in Groups \cap SourceGroups :
            calls[i].tools[k] \in Range(getTools(group)) =>
                LET schema == inputSchema(group, calls[i].tools[k]) IN
                /\ schema.required \subseteq schema.properties
                /\ schema.optional \cap schema.required = {}

(***************************************************************************)
(* C27  An invocation that never reaches a backend operation leaves no     *)
(* trace: healthcheck, a name the dispatcher does not know, and a name     *)
(* routed to a group that does not recognize it are answered in one step   *)
(* that records no metrics observation and starts no session-ensure, so    *)
(* the metrics state and the session state are the same after it as        *)
(* before.                                                                 *)
(***************************************************************************)
NoOperationNoTrace ==
    [][\A i \in Calls :
          (/\ calls[i].pc = "idle"
           /\ calls'[i].pc = "done"
           /\ calls'[i].method = "none") =>
              /\ metrics' = metrics
              /\ session' = session
              /\ calls'[i].tracked = 0
              /\ calls'[i].logins = 0
              /\ calls'[i].ops = 0]_vars

\* getPackages is routed to the DDIC group, which does not recognize it; the
\* metrics and the session hold what the invocation of getTableContent in
\* the other slot left there, and nothing else
NoOperationNoTraceWitness ==
    /\ Done(1)
    /\ calls[1].name = "getPackages"
    /\ calls[1].group = "ddic"
    /\ ~Handled(1)
    /\ IsFailure(calls[1].envelope)
    /\ Done(2)
    /\ calls[2].name = "getTableContent"
    /\ calls[2].backend = Resolved(PlainValue)
    /\ metrics.attempted = 1
    /\ session.authenticated

(***************************************************************************)
(* C28  A known handler-group tool whose method reads at least one         *)
(* argument, invoked with an absent argument bag, issues no backend        *)
(* operation, records exactly one observation, a failure, and is answered  *)
(* with a Failure whose code is InternalError.  A method that reads no     *)
(* argument does not look at the bag: with an absent bag it issues its     *)
(* operation and is answered with a Success when the operation resolves,   *)
(* as with an empty bag.                                                   *)
(***************************************************************************)
AbsentBagFails ==
    \A i \in Calls :
        (Handled(i) /\ calls[i].group \in SourceGroups) =>
            LET h == MethodBody(calls[i].method) IN
            /\ (calls[i].args = "absent" /\ h.argReads # {}) =>
                  /\ calls[i].ops = 0
                  /\ Done(i) =>
                        /\ calls[i].tracked = 1
                        /\ calls[i].trackedOk = 0
                        /\ calls[i].returned = 1
                        /\ IsFailure(calls[i].envelope)
                        /\ FailureCode(calls[i].envelope) = "InternalError"
            /\ h.argReads = {} =>
                  /\ (Done(i) /\ calls[i].login.kind # "rejected") =>
                        calls[i].ops = 1
                  /\ (Done(i) /\ calls[i].backend = Resolved(PlainValue)) =>
                        /\ calls[i].trackedOk = 1
                        /\ IsSuccess(calls[i].envelope)

\* getObjectPath was invoked without arguments and has been answered
AbsentBagFailsWitness ==
    /\ Done(1)
    /\ calls[1].name = "getObjectPath"
    /\ calls[1].method = "handleGetObjectPath"
    /\ calls[1].args = "absent"
    /\ calls[1].ops = 0
    /\ metrics.failed = 1
    /\ IsFailure(calls[1].envelope)

====
